---- MODULE Spec2Model ----
(***************************************************************************)
(* State machine of PerfUtils::LogCompressor (runtime/LogCompressor.cc):   *)
(* the compressor thread's scan/compress loop over the registry of         *)
(* StagingBuffers, the double-buffered asynchronous writer, and the        *)
(* sync()/exit() protocol.                                                 *)
(*                                                                         *)
(* Granularity.  One action is one stretch of code between two points at   *)
(* which the thread can block or another thread can interfere.             *)
(*  - `mutex` (the LogCompressor's own lock) is only ever held inside such *)
(*    a stretch: sync(), exit() and lines 245-256 release it before they   *)
(*    block.  It needs no variable.                                        *)
(*  - FastLogger::bufferMutex is held by the compressor across steps and   *)
(*    is the variable bufferMutexHeld; producers hold it for one step.     *)
(*  - Every step that goes back to the top of the scan loop evaluates the  *)
(*    loop condition of line 162, so that pc = "scan" is the point after   *)
(*    the condition and before the read of threadBuffers[i] (line 164).    *)
(*  - Locals are reset when their block ends (i, workFound, sb, peek       *)
(*    position, readable bytes, out).  outputBufferFull is set at line 202 *)
(*    and ends the pass within the same step, so it is no variable.        *)
(*  - workAdded.wait_for(lock, 1us) always returns; the time spent in it   *)
(*    is time spent at pc = "loop".                                        *)
(*  - condition_variable::wait is modelled without spurious wake-ups.      *)
(*  - sync() is entered and reaches its wait in one step, and a notified   *)
(*    waiter returns in the step that notifies it: `mutex` is free         *)
(*    whenever a thread wants it.                                          *)
(***************************************************************************)
EXTENDS Integers, Sequences, FiniteSets, TLC

(* ------------------------------ bounds --------------------------------- *)
NumBuffers == 2          \* producer threads, one StagingBuffer each
MaxRecords == 2          \* records a producer enqueues in its lifetime
NumSyncers == 2          \* threads calling sync()
BufferSize == 1024       \* BUFFER_SIZE, scaled down to two alignment units
FmtIdModulus == 4        \* 2^32 (uint32_t fmtId), scaled down
TimestampModulus == 8    \* 2^64 (uint64_t timestamp), scaled down

(* ------------------------- program constants --------------------------- *)
AlignUnit == 512         \* the 512 of lines 262-266

NULL    == 0             \* nullptr
NoIndex == 0 - 1

Buffers == 1..NumBuffers
Syncers == 1..NumSyncers
OutputBuffers == {1, 2}  \* the two regions allocated at lines 65 and 72

\* RecordEntry headers of the log statements producer b executes: entrySize,
\* argMetaBytes, fmtId and timestamp.  Producers differ in their statements,
\* and the producer scanned first has the later timestamps.
RecordKinds(b) ==
    IF b % 2 = 1
    THEN { [entrySize |-> 512, argMetaBytes |-> 100, fmtId |-> 1,
            timestamp |-> 6] }
    ELSE { [entrySize |-> 600, argMetaBytes |-> 0, fmtId |-> 2,
            timestamp |-> 3] }

\* Bytes that compressMetadata and compressFnArray[fmtId] emit for a record
\* (lines 209-215): more than none, less than the worst case of line 197.
CompressedSize(re) == re.entrySize \div 2

\* BufferUtils::compressMetadata (line 209): fmtId and timestamp are written
\* as differences to the carry state, in the width of their types.
CompressMetadata(re, lastTs, lastFmt) ==
    [fmtDelta |-> (re.fmtId - lastFmt) % FmtIdModulus,
     tsDelta  |-> (re.timestamp - lastTs) % TimestampModulus]

\* The decoder's inverse: carry is <<fmtId, timestamp>> of the record decoded
\* before (<<0, 0>> at the start of the stream).
DecodeMetadata(frame, carry) ==
    <<(carry[1] + frame.fmtDelta) % FmtIdModulus,
      (carry[2] + frame.tsDelta) % TimestampModulus>>

VARIABLES
    \* FastLogger registry and StagingBuffers
    threadBuffers,      \* FastLogger::threadBuffers: Seq(Buffers \cup {NULL})
    bufferMutexHeld,    \* FastLogger::bufferMutex is held by the compressor
    prod,               \* producer thread of buffer b: "new" | "live" | "dead"
    enq,                \* enq[b]: the records written into buffer b so far
    readPos,            \* readPos[b]: bytes consume()d from buffer b so far
    \* compressor thread (threadMain locals and members)
    pc,
    i,
    lastStagingBufferChecked,
    out,                \* out - outputBuffer
    workFound,
    sb,
    peekPosition,       \* byte offset into sb's record stream
    readableBytes,
    readableBytesStart,
    \* writer
    hasOustandingOperation,
    inflight,           \* inflight[r]: writes in progress out of region r
    outputBuffer,       \* the region outputBuffer points to
    aioCbBuf,           \* aioCb.aio_buf
    bytesSubmitted,     \* bytes handed to the destination so far
    \* statistics
    padBytesWritten,
    totalBytesRead,
    totalBytesWritten,
    numAioWritesCompleted,  \* counted from its value after construction
                            \* (the initializer list, lines 42-59, omits it)
    eventsProcessed,
    \* controller
    shouldExit,
    syncRequested,
    syncPc,     \* sync() caller c: "idle" | "waiting" | "returned"
    exitPc,     \* exit() caller: "idle"|"joining"|"returned"
    \* build configuration: USE_AIO, FILE_PARAMS & O_DIRECT
    useAIO,
    oDirect,
    \* history
    compressed,         \* compressed[b]: indices of b's records, as compressed
    syncTodo,           \* syncTodo[c]: buffers registered when c called sync()
                        \* and not peek()ed since
    lastFmtId,          \* carry state of the metadata compression
    lastTimestamp,
    lastEmitted,        \* <<fmtId, timestamp>> of the record compressed last
    lapSeen,            \* live buffers peek()ed in the current lap of the scan
    lapTodo,            \* live buffers registered when the lap began and not
                        \* peek()ed in it yet
    numFdatasync,       \* calls of fdatasync(outputFd) so far (line 322)
    buffersFreed,       \* the destructor has freed outputBuffer and posixBuffer
    bytesConsumed,      \* sum of entrySize of the records consume()d so far
    unsubmitted,        \* compressed bytes not yet handed to a write
    stoppedAt           \* index at which the last pass stopped for lack of
                        \* output space, NoIndex once the next pass has begun

regVars   == <<threadBuffers, prod, enq, readPos>>
scanVars  == <<i, lastStagingBufferChecked, out, workFound, sb, peekPosition,
               readableBytes, readableBytesStart>>
ioVars    == <<hasOustandingOperation, inflight, outputBuffer, aioCbBuf,
               bytesSubmitted>>
statVars  == <<padBytesWritten, totalBytesRead, totalBytesWritten,
               numAioWritesCompleted, eventsProcessed>>
ctlVars   == <<shouldExit, syncRequested, syncPc, exitPc>>
cfgVars   == <<useAIO, oDirect>>
histVars  == <<compressed, syncTodo, stoppedAt>>
metaVars == <<lastFmtId, lastTimestamp, lastEmitted>>
lapVars == <<lapSeen, lapTodo>>
downVars == <<numFdatasync, buffersFreed>>
sumVars == <<bytesConsumed, unsubmitted>>
vars == <<regVars, bufferMutexHeld, pc, scanVars, ioVars, statVars, ctlVars,
          cfgVars, histVars, metaVars, lapVars, downVars, sumVars>>

(* --------------------------- StagingBuffer ----------------------------- *)
RECURSIVE SumSizes(_)
SumSizes(s) ==
    IF s = <<>> THEN 0 ELSE Head(s).entrySize + SumSizes(Tail(s))

\* Byte offset at which the n-th record of buffer b starts.
Offset(b, n) == SumSizes(SubSeq(enq[b], 1, n - 1))

\* Lengths peek() may report: zero when nothing is unread, else a contiguous
\* run that ends at a record boundary (shorter than all unread bytes when the
\* ring wraps).
PeekRuns(b) ==
    LET ends == { Offset(b, n + 1) : n \in 1..Len(enq[b]) }
        runs == { e - readPos[b] : e \in { e \in ends : e > readPos[b] } }
    IN  IF runs = {} THEN {0} ELSE runs

\* The RecordEntry found at byte offset pos of buffer b; index 0 and a
\* header that claims the rest of the run when pos is not the start of a
\* record.
RecordIndexAt(b, pos) ==
    IF \E n \in 1..Len(enq[b]) : Offset(b, n) = pos
    THEN CHOOSE n \in 1..Len(enq[b]) : Offset(b, n) = pos
    ELSE 0

RecordAt(b, pos) ==
    IF RecordIndexAt(b, pos) # 0 THEN enq[b][RecordIndexAt(b, pos)]
    ELSE [entrySize |-> readableBytes, argMetaBytes |-> 0, fmtId |-> 0,
          timestamp |-> 0]

\* Buffers that have a live (non-tombstone) entry in the registry.
Registered == { threadBuffers[k] : k \in 1..Len(threadBuffers) } \ {NULL}

(* ------------------------------- Init ---------------------------------- *)
Init ==
    /\ threadBuffers = <<>>
    /\ bufferMutexHeld = FALSE
    /\ prod = [b \in Buffers |-> "new"]
    /\ enq = [b \in Buffers |-> <<>>]
    /\ readPos = [b \in Buffers |-> 0]
    /\ pc = "loop"
    /\ i = 0
    /\ lastStagingBufferChecked = 0
    /\ out = 0
    /\ workFound = FALSE
    /\ sb = NULL
    /\ peekPosition = 0
    /\ readableBytes = 0
    /\ readableBytesStart = 0
    /\ hasOustandingOperation = FALSE
    /\ inflight = [r \in OutputBuffers |-> 0]
    /\ outputBuffer = 1
    /\ aioCbBuf = NULL
    /\ bytesSubmitted = 0
    /\ padBytesWritten = 0
    /\ totalBytesRead = 0
    /\ totalBytesWritten = 0
    /\ numAioWritesCompleted = 0
    /\ eventsProcessed = 0
    /\ shouldExit = FALSE
    /\ syncRequested = FALSE
    /\ syncPc = [c \in Syncers |-> "idle"]
    /\ exitPc = "idle"
    /\ useAIO \in BOOLEAN
    /\ oDirect \in BOOLEAN
    /\ compressed = [b \in Buffers |-> <<>>]
    /\ syncTodo = [c \in Syncers |-> {}]
    /\ stoppedAt = NoIndex
    /\ lastFmtId = 0
    /\ lastTimestamp = 0
    /\ lastEmitted = <<0, 0>>
    /\ lapSeen = {}
    /\ lapTodo = {}
    /\ numFdatasync = 0
    /\ bytesConsumed = 0
    /\ unsubmitted = 0
    /\ buffersFreed = FALSE

(* ----------------------------- producers ------------------------------- *)
\* A StagingBuffer whose producer is dead and which the compressor does not
\* point to is gone; so is what is recorded about it.
Release(b, f, empty) == [f EXCEPT ![b] = empty]

\* A producer thread registers its StagingBuffer on its first log call.
\* Buffer ids are handed out in order.
Register(b) ==
    /\ prod[b] = "new"
    /\ \A b2 \in Buffers : b2 < b => prod[b2] # "new"
    /\ ~bufferMutexHeld
    /\ prod' = [prod EXCEPT ![b] = "live"]
    /\ threadBuffers' = Append(threadBuffers, b)
    /\ UNCHANGED <<enq, readPos, bufferMutexHeld, pc, scanVars, ioVars,
                   statVars, ctlVars, cfgVars, histVars, metaVars, lapVars, downVars, sumVars>>

\* The producer writes one record into its own buffer (no lock).
Enqueue(b, re) ==
    /\ prod[b] = "live"
    /\ Len(enq[b]) < MaxRecords
    /\ enq' = [enq EXCEPT ![b] = Append(@, re)]
    /\ UNCHANGED <<threadBuffers, prod, readPos, bufferMutexHeld, pc, scanVars,
                   ioVars, statVars, ctlVars, cfgVars, histVars, metaVars, lapVars, downVars, sumVars>>

\* The producer thread ends: its registry entry becomes nullptr.
Die(b) ==
    /\ prod[b] = "live"
    /\ ~bufferMutexHeld
    /\ prod' = [prod EXCEPT ![b] = "dead"]
    /\ threadBuffers' = [k \in 1..Len(threadBuffers) |->
                            IF threadBuffers[k] = b THEN NULL
                            ELSE threadBuffers[k]]
    /\ syncTodo' = [c \in Syncers |-> syncTodo[c] \ {b}]
    /\ lapSeen' = lapSeen \ {b}
    /\ lapTodo' = lapTodo \ {b}
    /\ IF sb # b
       THEN /\ enq' = Release(b, enq, <<>>)
            /\ readPos' = Release(b, readPos, 0)
            /\ compressed' = Release(b, compressed, <<>>)
       ELSE UNCHANGED <<enq, readPos, compressed>>
    /\ UNCHANGED <<bufferMutexHeld, pc, scanVars, ioVars, statVars, ctlVars,
                   cfgVars, stoppedAt, metaVars, downVars, sumVars>>

(* ------------------------- sync() and exit() --------------------------- *)
\* Lines 379-384: lock, syncRequested = true, notify workAdded, then wait on
\* hintQueueEmptied (which releases the lock).  Callers are numbered in the
\* order of their calls.
SyncWait(c) ==
    /\ syncPc[c] = "idle"
    /\ \A c2 \in Syncers : c2 < c => syncPc[c2] # "idle"
    /\ syncRequested' = TRUE
    /\ syncPc' = [syncPc EXCEPT ![c] = "waiting"]
    /\ syncTodo' = [syncTodo EXCEPT ![c] = Registered]
    /\ UNCHANGED <<regVars, bufferMutexHeld, pc, scanVars, ioVars, statVars,
                   shouldExit, exitPc, cfgVars, compressed, stoppedAt, metaVars, lapVars, downVars, sumVars>>

\* Lines 396-400: shouldExit = true under the lock, notify workAdded.
Exit ==
    /\ exitPc = "idle"
    /\ shouldExit' = TRUE
    /\ exitPc' = "joining"
    /\ UNCHANGED <<regVars, bufferMutexHeld, pc, scanVars, ioVars, statVars,
                   syncRequested, syncPc, cfgVars, histVars, metaVars, lapVars, downVars, sumVars>>

\* Line 401: workerThread.join() returns once threadMain has returned.
Join ==
    /\ exitPc = "joining"
    /\ pc = "done"
    /\ exitPc' = "returned"
    /\ UNCHANGED <<regVars, bufferMutexHeld, pc, scanVars, ioVars, statVars,
                   shouldExit, syncRequested, syncPc, cfgVars, histVars, metaVars, lapVars, downVars, sumVars>>

\* Lines 90-103: the rest of the destructor, after its exit() has returned:
\* both buffers are freed and the file is closed.
FreeBuffers ==
    /\ exitPc = "returned"
    /\ ~buffersFreed
    /\ buffersFreed' = TRUE
    /\ UNCHANGED <<regVars, bufferMutexHeld, pc, scanVars, ioVars, statVars,
                   ctlVars, cfgVars, histVars, metaVars, lapVars,
                   numFdatasync, sumVars>>

(* ------------------------ compressor: helpers -------------------------- *)
PassStartIndex_Zero(last) == 0

\* Line 147: the index a pass starts scanning at, given the persisted index.
PassStartIndex(last) == last

HoldsLockAfterPeek_Always(rb) == TRUE

\* Lines 183-186: after peek() the lock stays held only when the buffer had
\* nothing readable.
HoldsLockAfterPeek(rb) == rb = 0

\* Line 197: the worst-case size of the record does not fit what is left.
DoesNotFit(re) == re.entrySize + re.argMetaBytes > BufferSize - out

NextPeekPosition_Stuck(pos, re) == pos

\* Line 218.
NextPeekPosition(pos, re) == pos + re.entrySize

CarryAfter_Stale(re, carry) == carry

\* Lines 210-211: the carry state after a record has been compressed.
CarryAfter(re, carry) == <<re.fmtId, re.timestamp>>

ConsumeAmount_WithMeta(re) == re.entrySize + re.argMetaBytes

\* Line 219: the argument of sb->consume().
ConsumeAmount(re) == re.entrySize

AioWaitOver_NoWait == TRUE

AioInProgress_NeverBusy == FALSE

\* Line 112: aio_error(&aioCb) == EINPROGRESS.
AioInProgress == aioCbBuf # NULL /\ inflight[aioCbBuf] > 0

\* Lines 109-112: waitForAIO() gets past its spin loop.
AioWaitOver == hasOustandingOperation => ~AioInProgress

PassMayStart_AfterWrite == AioWaitOver

\* Lines 139-142: a pass starts on the active output buffer at once; there
\* is no call of waitForAIO() before the scan.
PassMayStart == TRUE

\* Lines 122-123: what waitForAIO() leaves in numAioWritesCompleted.
CompletedAfterWait ==
    IF hasOustandingOperation THEN numAioWritesCompleted + 1
    ELSE numAioWritesCompleted

NextOutputBuffer_NoSwap(r) == r

\* Lines 287-289: outputBuffer and posixBuffer are swapped; the region that
\* becomes active when region r has been submitted.
NextOutputBuffer(r) == 3 - r

PaddedLength_NoRoundDown(n) ==
    IF oDirect /\ n % AlignUnit # 0 THEN n + AlignUnit ELSE n

\* Lines 260-268: the length handed to the write, and the pad it contains.
PaddedLength(n) ==
    IF oDirect /\ n % AlignUnit # 0 THEN n + AlignUnit - (n % AlignUnit) ELSE n

PadBytes(n) ==
    IF oDirect /\ n % AlignUnit # 0 THEN AlignUnit - (n % AlignUnit) ELSE 0

\* FastLogger::threadBuffers.erase(begin() + k), k counted from 0.
Erase(s, k) == SubSeq(s, 1, k) \o SubSeq(s, k + 2, Len(s))

\* Line 241: the block of the pass ends; the lock is released.
EndPass ==
    /\ pc' = "post"
    /\ bufferMutexHeld' = FALSE
    /\ i' = 0
    /\ workFound' = FALSE

\* Line 162 (outputBufferFull being false): go on scanning at index ni unless
\* shouldExit is set.
ScanLoop(ni, wf) ==
    IF shouldExit THEN EndPass
    ELSE /\ pc' = "scan"
         /\ bufferMutexHeld' = TRUE
         /\ i' = ni
         /\ workFound' = wf

\* Lines 227-238: advance the index circularly over n entries; a lap without
\* work ends the pass.
AdvanceIndex(n) ==
    LET ni == (i + 1) % n IN
    IF ni = lastStagingBufferChecked /\ ~workFound
    THEN EndPass
    ELSE ScanLoop(ni, workFound /\ ni # lastStagingBufferChecked)

\* Line 236: the index is back at the persisted cursor after a lap that found
\* work; the next lap begins.
NewLap(n) == (i + 1) % n = lastStagingBufferChecked /\ workFound

\* What the scan has visited in the current lap, for a step that leaves the
\* thread at pc'.
LapGhost(seen, todo) ==
    /\ lapSeen' = IF pc' = "scan" \/ pc' = "compress" THEN seen ELSE {}
    /\ lapTodo' = todo

NothingCompressed_OrExiting == out = 0 \/ shouldExit

\* Line 244: the pass left the output buffer empty.
NothingCompressed == out = 0

\* The locals of the scan loop's body go out of scope.
LeaveBuffer ==
    /\ sb' = NULL
    /\ peekPosition' = 0
    /\ readableBytes' = 0
    /\ readableBytesStart' = 0

(* ------------------------ compressor: threadMain ----------------------- *)
\* Lines 139-142: the loop condition; a pass begins.
LoopTop ==
    /\ pc = "loop"
    /\ PassMayStart
    /\ pc' = IF shouldExit THEN "final" ELSE "pass_lock"
    /\ out' = 0
    /\ lapSeen' = {}
    /\ lapTodo' = {}
    /\ UNCHANGED <<regVars, bufferMutexHeld, i, lastStagingBufferChecked,
                   workFound, sb, peekPosition, readableBytes,
                   readableBytesStart, ioVars, statVars, ctlVars, cfgVars,
                   histVars, metaVars, downVars, sumVars>>

\* Lines 144-162: take bufferMutex, start at the persisted index; leave the
\* main loop when the registry is empty.
PassLock ==
    /\ pc = "pass_lock"
    /\ ~bufferMutexHeld
    /\ IF threadBuffers = <<>>
       THEN /\ pc' = "final"
            /\ UNCHANGED <<bufferMutexHeld, i, workFound, stoppedAt, lapVars>>
       ELSE /\ ScanLoop(PassStartIndex(lastStagingBufferChecked), FALSE)
            /\ stoppedAt' = NoIndex
            /\ LapGhost({}, Registered)
    /\ UNCHANGED <<regVars, lastStagingBufferChecked, out, sb, peekPosition,
                   readableBytes, readableBytesStart, ioVars, statVars,
                   ctlVars, cfgVars, compressed, syncTodo, metaVars, downVars, sumVars>>

\* Line 164 with i outside the vector: undefined behaviour.  The thread
\* faults, or reads nothing usable and goes round the loop again.
ScanOutOfRange ==
    /\ pc = "scan"
    /\ i >= Len(threadBuffers)
    /\ \/ /\ pc' = "crashed"
          /\ UNCHANGED <<bufferMutexHeld, i, workFound>>
       \/ ScanLoop(i, workFound)
    /\ LapGhost(lapSeen, lapTodo)
    /\ UNCHANGED <<regVars, lastStagingBufferChecked, out, sb, peekPosition,
                   readableBytes, readableBytesStart, ioVars, statVars,
                   ctlVars, cfgVars, histVars, metaVars, downVars, sumVars>>

\* Lines 167-178: the entry is a tombstone; erase it and fix up the indices.
ScanTombstone ==
    /\ pc = "scan"
    /\ i < Len(threadBuffers)
    /\ threadBuffers[i + 1] = NULL
    /\ threadBuffers' = Erase(threadBuffers, i)
    /\ IF i = Len(threadBuffers')
       THEN /\ lastStagingBufferChecked' =
                  IF lastStagingBufferChecked = i THEN 0
                  ELSE lastStagingBufferChecked
            /\ ScanLoop(0, workFound)
       ELSE /\ UNCHANGED lastStagingBufferChecked
            /\ ScanLoop(i, workFound)
    /\ LapGhost(lapSeen, lapTodo)
    /\ UNCHANGED <<prod, enq, readPos, out, sb, peekPosition, readableBytes,
                   readableBytesStart, ioVars, statVars, ctlVars, cfgVars,
                   histVars, metaVars, downVars, sumVars>>

\* Lines 164, 180-186 and, for a buffer with nothing to read, 227-238.
ScanPeek ==
    /\ pc = "scan"
    /\ i < Len(threadBuffers)
    /\ threadBuffers[i + 1] # NULL
    /\ LET b == threadBuffers[i + 1] IN
       /\ syncTodo' = [c \in Syncers |-> syncTodo[c] \ {b}]
       /\ \E rb \in PeekRuns(b) :
            IF rb > 0
            THEN /\ sb' = b
                 /\ readableBytes' = rb
                 /\ readableBytesStart' = rb
                 /\ peekPosition' = readPos[b]
                 /\ workFound' = TRUE
                 /\ bufferMutexHeld' = HoldsLockAfterPeek(rb)
                 /\ pc' = "compress"
                 /\ i' = i
                 /\ LapGhost(lapSeen \cup {b}, lapTodo \ {b})
            ELSE /\ AdvanceIndex(Len(threadBuffers))
                 /\ IF NewLap(Len(threadBuffers))
                    THEN LapGhost({}, Registered)
                    ELSE LapGhost(lapSeen \cup {b}, lapTodo \ {b})
                 /\ UNCHANGED <<sb, readableBytes, readableBytesStart,
                                peekPosition>>
    /\ UNCHANGED <<regVars, lastStagingBufferChecked, out, ioVars, statVars,
                   ctlVars, cfgVars, compressed, stoppedAt, metaVars, downVars, sumVars>>

\* Lines 206-219: compress one record into the output buffer and consume it.
CompressRecord ==
    /\ pc = "compress"
    /\ readableBytes > 0
    /\ LET re == RecordAt(sb, peekPosition) IN
        /\ ~DoesNotFit(re)
        /\ eventsProcessed' = eventsProcessed + 1
        /\ out' = out + CompressedSize(re)
        /\ readableBytes' = readableBytes - re.entrySize
        /\ peekPosition' = NextPeekPosition(peekPosition, re)
        /\ readPos' = [readPos EXCEPT ![sb] = @ + ConsumeAmount(re)]
        /\ lastFmtId' = CarryAfter(re, <<lastFmtId, lastTimestamp>>)[1]
        /\ lastTimestamp' = CarryAfter(re, <<lastFmtId, lastTimestamp>>)[2]
        /\ lastEmitted' = <<re.fmtId, re.timestamp>>
        /\ bytesConsumed' = bytesConsumed + re.entrySize
        /\ unsubmitted' = unsubmitted + CompressedSize(re)
        /\ compressed' = [compressed EXCEPT
                            ![sb] = Append(@, RecordIndexAt(sb, peekPosition))]
    /\ UNCHANGED <<threadBuffers, prod, enq, bufferMutexHeld, pc, i,
                   lastStagingBufferChecked, workFound, sb, readableBytesStart,
                   ioVars, padBytesWritten, totalBytesRead, totalBytesWritten,
                   numAioWritesCompleted, cfgVars, ctlVars, syncTodo,
                   stoppedAt, lapVars, downVars>>

\* The compressor lets go of sb; the buffer of a dead producer is gone.
DropBuffer ==
    /\ LeaveBuffer
    /\ IF prod[sb] = "dead"
       THEN /\ enq' = Release(sb, enq, <<>>)
            /\ readPos' = Release(sb, readPos, 0)
            /\ compressed' = Release(sb, compressed, <<>>)
       ELSE UNCHANGED <<enq, readPos, compressed>>

\* Lines 190 (false), 221-238: the run is used up; lock again, next buffer.
CompressDone ==
    /\ pc = "compress"
    /\ readableBytes <= 0
    /\ ~bufferMutexHeld
    /\ totalBytesRead' = totalBytesRead + (readableBytesStart - readableBytes)
    /\ AdvanceIndex(Len(threadBuffers))
    /\ IF NewLap(Len(threadBuffers))
       THEN LapGhost({}, Registered)
       ELSE LapGhost(lapSeen, lapTodo)
    /\ DropBuffer
    /\ UNCHANGED <<threadBuffers, prod, lastStagingBufferChecked, out, ioVars,
                   padBytesWritten, totalBytesWritten, numAioWritesCompleted,
                   eventsProcessed, ctlVars, cfgVars, syncTodo, stoppedAt, metaVars, downVars, sumVars>>

\* Lines 197-204, 221-227 and 162: the next record may not fit; remember the
\* index, set outputBufferFull, which ends the pass.
CompressFull ==
    /\ pc = "compress"
    /\ readableBytes > 0
    /\ DoesNotFit(RecordAt(sb, peekPosition))
    /\ ~bufferMutexHeld
    /\ lastStagingBufferChecked' = i
    /\ stoppedAt' = i
    /\ totalBytesRead' = totalBytesRead + (readableBytesStart - readableBytes)
    /\ EndPass
    /\ LapGhost(lapSeen, lapTodo)
    /\ DropBuffer
    /\ UNCHANGED <<threadBuffers, prod, out, ioVars, padBytesWritten,
                   totalBytesWritten, numAioWritesCompleted, eventsProcessed,
                   ctlVars, cfgVars, syncTodo, metaVars, downVars, sumVars>>

\* Lines 244-252: nothing was compressed and a sync is pending; go round.
PostSync ==
    /\ pc = "post"
    /\ NothingCompressed
    /\ syncRequested
    /\ syncRequested' = FALSE
    /\ pc' = "loop"
    /\ UNCHANGED <<regVars, bufferMutexHeld, scanVars, ioVars, statVars,
                   shouldExit, syncPc, exitPc, cfgVars, histVars, metaVars, lapVars, downVars, sumVars>>

\* Lines 244-256: nothing was compressed; hintQueueEmptied.notify_one()
\* wakes one waiter of sync(), if any, which returns (line 385); then the
\* timed wait on workAdded.
PostIdle ==
    /\ pc = "post"
    /\ NothingCompressed
    /\ ~syncRequested
    /\ IF \E c \in Syncers : syncPc[c] = "waiting"
       THEN \E c \in Syncers :
               /\ syncPc[c] = "waiting"
               /\ syncPc' = [syncPc EXCEPT ![c] = "returned"]
       ELSE UNCHANGED syncPc
    /\ pc' = "loop"
    /\ UNCHANGED <<regVars, bufferMutexHeld, scanVars, ioVars, statVars,
                   shouldExit, syncRequested, exitPc, cfgVars, histVars, metaVars, lapVars, downVars, sumVars>>

\* Lines 259-289 with USE_AIO: pad, wait for the previous write, submit the
\* active buffer and swap the buffers.
FlushAsync ==
    /\ pc = "post"
    /\ out # 0
    /\ useAIO
    /\ AioWaitOver
    /\ padBytesWritten' = padBytesWritten + PadBytes(out)
    /\ numAioWritesCompleted' = CompletedAfterWait
    /\ aioCbBuf' = outputBuffer
    /\ totalBytesWritten' = totalBytesWritten + PaddedLength(out)
    /\ bytesSubmitted' = bytesSubmitted + PaddedLength(out)
    /\ inflight' = [inflight EXCEPT ![outputBuffer] = @ + 1]
    /\ hasOustandingOperation' = TRUE
    /\ outputBuffer' = NextOutputBuffer(outputBuffer)
    /\ out' = 0
    /\ unsubmitted' = 0
    /\ pc' = "loop"
    /\ UNCHANGED <<regVars, bufferMutexHeld, i, lastStagingBufferChecked,
                   workFound, sb, peekPosition, readableBytes,
                   readableBytesStart, totalBytesRead, eventsProcessed,
                   ctlVars, cfgVars, histVars, metaVars, lapVars, downVars, bytesConsumed>>

\* Lines 259-268 and 290-293 without USE_AIO: pad and write synchronously.
FlushSync ==
    /\ pc = "post"
    /\ out # 0
    /\ ~useAIO
    /\ padBytesWritten' = padBytesWritten + PadBytes(out)
    /\ bytesSubmitted' = bytesSubmitted + PaddedLength(out)
    /\ out' = 0
    /\ unsubmitted' = 0
    /\ pc' = "loop"
    /\ UNCHANGED <<regVars, bufferMutexHeld, i, lastStagingBufferChecked,
                   workFound, sb, peekPosition, readableBytes,
                   readableBytesStart, hasOustandingOperation, inflight,
                   outputBuffer, aioCbBuf, totalBytesRead, totalBytesWritten,
                   numAioWritesCompleted, eventsProcessed, ctlVars, cfgVars,
                   histVars, metaVars, lapVars, downVars, bytesConsumed>>

\* Lines 305-309: after the loop, wait for a write that is still outstanding.
FinalWait ==
    /\ pc = "final"
    /\ AioWaitOver
    /\ numAioWritesCompleted' = CompletedAfterWait
    /\ hasOustandingOperation' = FALSE
    /\ pc' = "stats"
    /\ UNCHANGED <<regVars, bufferMutexHeld, scanVars, inflight, outputBuffer,
                   aioCbBuf, bytesSubmitted, padBytesWritten, totalBytesRead,
                   totalBytesWritten, eventsProcessed, ctlVars, cfgVars,
                   histVars, metaVars, lapVars, downVars, sumVars>>

\* Lines 312-314: printStats() (with its fdatasync); threadMain returns.
PrintStats ==
    /\ pc = "stats"
    /\ pc' = "done"
    /\ numFdatasync' = numFdatasync + 1
    /\ UNCHANGED buffersFreed
    /\ UNCHANGED <<regVars, bufferMutexHeld, scanVars, ioVars, statVars,
                   ctlVars, cfgVars, histVars, metaVars, lapVars, sumVars>>

\* The kernel finishes a write that was in progress out of region r.
AioComplete(r) ==
    /\ inflight[r] > 0
    /\ inflight' = [inflight EXCEPT ![r] = @ - 1]
    /\ UNCHANGED <<regVars, bufferMutexHeld, pc, scanVars,
                   hasOustandingOperation, outputBuffer, aioCbBuf,
                   bytesSubmitted, statVars, ctlVars, cfgVars, histVars, metaVars, lapVars, downVars, sumVars>>

(* --------------------------- specifications ---------------------------- *)
Next ==
    \/ \E b \in Buffers : Register(b)
    \/ \E b \in Buffers : \E re \in RecordKinds(b) : Enqueue(b, re)
    \/ \E b \in Buffers : Die(b)
    \/ \E c \in Syncers : SyncWait(c)
    \/ Exit
    \/ Join
    \/ FreeBuffers
    \/ \E r \in OutputBuffers : AioComplete(r)
    \/ LoopTop
    \/ PassLock
    \/ ScanOutOfRange
    \/ ScanTombstone
    \/ ScanPeek
    \/ CompressRecord
    \/ CompressDone
    \/ CompressFull
    \/ PostSync
    \/ PostIdle
    \/ FlushAsync
    \/ FlushSync
    \/ FinalWait
    \/ PrintStats

Spec == Init /\ [][Next]_vars

\* The program while no producer logs anything: producers register and end,
\* callers sync() and exit(), the compressor scans.  The compressor thread is
\* scheduled fairly and join() returns once the thread has ended.
QuietCompressor ==
    \/ LoopTop
    \/ PassLock
    \/ ScanOutOfRange
    \/ ScanTombstone
    \/ ScanPeek
    \/ PostSync
    \/ PostIdle
    \/ FinalWait
    \/ PrintStats

QuietNext ==
    \/ \E b \in Buffers : Register(b)
    \/ \E b \in Buffers : Die(b)
    \/ \E c \in Syncers : SyncWait(c)
    \/ Exit
    \/ Join
    \/ FreeBuffers
    \/ QuietCompressor

FairQuietSpec ==
    Init /\ [][QuietNext]_vars /\ WF_vars(QuietCompressor) /\ WF_vars(Join)

\* The steps of the compressor thread outside a flush: loop top, scan,
\* compression and the nothing-compressed path.
ScanPhaseStep ==
    \/ LoopTop
    \/ PassLock
    \/ ScanOutOfRange
    \/ ScanTombstone
    \/ ScanPeek
    \/ CompressRecord
    \/ CompressDone
    \/ CompressFull
    \/ PostSync
    \/ PostIdle

\* The program while nobody calls exit(): producers register, log and end,
\* threads call sync(), the compressor runs.  The compressor thread is scheduled fairly
\* and every write the kernel has accepted completes.
CompressorStep ==
    \/ ScanPhaseStep
    \/ FlushAsync
    \/ FlushSync
    \/ FinalWait
    \/ PrintStats

RunningNext ==
    \/ \E b \in Buffers : Register(b)
    \/ \E b \in Buffers : \E re \in RecordKinds(b) : Enqueue(b, re)
    \/ \E b \in Buffers : Die(b)
    \/ \E c \in Syncers : SyncWait(c)
    \/ \E r \in OutputBuffers : AioComplete(r)
    \/ CompressorStep

FairRunningSpec ==
    /\ Init
    /\ [][RunningNext]_vars
    /\ WF_vars(CompressorStep)
    /\ WF_vars(\E r \in OutputBuffers : AioComplete(r))

\* A log statement whose record cannot fit even an empty output buffer.
OversizeRecord ==
    [entrySize |-> BufferSize + 1, argMetaBytes |-> 0, fmtId |-> 3,
     timestamp |-> 7]

EnqueueOversize(b) == Enqueue(b, OversizeRecord)

\* The running program with producers that also execute such a statement.
OversizeNext ==
    \/ RunningNext
    \/ \E b \in Buffers : EnqueueOversize(b)

OversizeSpec == Init /\ [][OversizeNext]_vars

(* ------------------------------ claims -------------------------------- *)
\* C1: a call of sync() returns only after the compressor has completed a
\* full pass, over every StagingBuffer registered when the call started,
\* that began after the call started.  Stated through what any such pass
\* leaves behind: once the call has returned, every buffer that was in the
\* registry when the call started (and whose producer is alive) has been
\* peek()ed since the call started.
C1_SyncReturnsAfterFullPass ==
    \A c \in Syncers : syncPc[c] = "returned" => syncTodo[c] = {}

\* C2: sync() called while the registry is empty eventually returns, also
\* when the compressor thread has already left its loop.  A caller blocked in
\* sync() is woken only by the notify of line 254, inside the thread's loop;
\* so while a caller waits on a registry that has always been empty (and no
\* exit() was called) the thread has not left its loop.
C2_SyncOnEmptyReturns ==
    \A c \in Syncers :
        (/\ syncPc[c] = "waiting"
         /\ \A b \in Buffers : prod[b] = "new"
         /\ ~shouldExit)
            => pc \notin {"final", "stats", "done"}

\* C3: once exit() has set shouldExit the loop thread terminates and the
\* join of exit() returns.
C3_ExitTerminates ==
    /\ shouldExit ~> (pc = "done")
    /\ (exitPc = "joining") ~> (exitPc = "returned")

\* C4: every record of a StagingBuffer is passed to consume() exactly once
\* with its own entrySize: the bytes consumed from a buffer are the sum of the
\* entrySize of the records compressed from it, no record is compressed twice
\* and none before the read position is left out.
ConsumedSizes(b) ==
    SumSizes([k \in 1..Len(compressed[b]) |->
                 IF compressed[b][k] \in 1..Len(enq[b])
                 THEN enq[b][compressed[b][k]]
                 ELSE [entrySize |-> 0, argMetaBytes |-> 0]])

C4_ConsumedExactlyOnce ==
    \A b \in Buffers :
        /\ readPos[b] = ConsumedSizes(b)
        /\ \A j, k \in 1..Len(compressed[b]) :
              j # k => compressed[b][j] # compressed[b][k]
        /\ \A n \in 1..Len(enq[b]) :
              Offset(b, n + 1) <= readPos[b]
                  => \E k \in 1..Len(compressed[b]) : compressed[b][k] = n

\* Both records of a buffer consumed, in a pass that then stopped for lack
\* of output space.
C4_Witness ==
    \E b \in Buffers :
        /\ Len(compressed[b]) = 2
        /\ readPos[b] = Offset(b, 3)
        /\ stoppedAt # NoIndex

\* C5: at most one asynchronous write is outstanding, and while it is in
\* progress a further flush cannot submit.
TotalInflight == inflight[1] + inflight[2]

C5_OneOutstandingWrite ==
    /\ TotalInflight <= 1
    /\ TotalInflight > 0 => ~ENABLED FlushAsync

\* A flush is due while the previous write is still in progress.
C5_Witness ==
    /\ pc = "post"
    /\ out # 0
    /\ useAIO
    /\ hasOustandingOperation
    /\ TotalInflight = 1

\* C6: with O_DIRECT every length submitted to a write is a multiple of 512,
\* at least the logical length and less than the logical length plus 512, and
\* the pad bytes accounted for the flush are the difference of the two.
C6_AlignedFlush ==
    [][ (oDirect /\ bytesSubmitted' # bytesSubmitted) =>
          LET written == bytesSubmitted' - bytesSubmitted IN
          /\ written % AlignUnit = 0
          /\ written >= out
          /\ written < out + AlignUnit
          /\ padBytesWritten' - padBytesWritten = written - out ]_vars

\* Flushes with and without pad have been written under O_DIRECT.
C6_Witness ==
    /\ oDirect
    /\ padBytesWritten > 0
    /\ bytesSubmitted > padBytesWritten + AlignUnit

\* C7: a pass that stops because the next record does not fit stops once, and
\* the next pass starts scanning at the index at which it stopped.
C7_EarlyStopResumes ==
    [][ /\ (stoppedAt' # stoppedAt /\ stoppedAt' # NoIndex)
            => (stoppedAt = NoIndex /\ pc' = "post")
        /\ (pc = "pass_lock" /\ pc' = "scan" /\ stoppedAt # NoIndex)
            => i' = stoppedAt ]_vars

\* The next pass is about to start after a stop at the second entry.
C7_Witness ==
    /\ pc = "pass_lock"
    /\ stoppedAt = 1
    /\ ~shouldExit

\* C8: the records of one StagingBuffer are compressed in the order in which
\* they were enqueued.
C8_PerBufferFifo ==
    \A b \in Buffers :
        compressed[b] = [k \in 1..Len(compressed[b]) |-> k]

\* Records of two buffers compressed, across a buffer swap.
C8_Witness ==
    /\ Len(compressed[1]) = 2
    /\ Len(compressed[2]) >= 1
    /\ outputBuffer = 2

\* C9: the compressor never holds the registry lock while it compresses or
\* consumes records, so that a producer can deregister meanwhile.
C9_NoLockWhileCompressing ==
    /\ bufferMutexHeld => pc \in {"scan", "crashed"}
    /\ pc = "compress" =>
          \A b \in Buffers : prod[b] = "live" => ENABLED Die(b)

\* The compressor is in the middle of a buffer while a producer can register.
C9_Witness ==
    /\ pc = "compress"
    /\ readableBytes > 0
    /\ ENABLED Register(2)

\* C10: a sync() call made before the loop thread has terminated, also one
\* made after exit() has set shouldExit, is eventually unblocked by the
\* loop's completion signal.  The signal is the notify of line 254, inside
\* the loop; so while a caller waits and the thread has not terminated, the
\* thread has not left its loop.  (Stated for a registry with a live
\* producer; the empty registry is C2.)
C10_SyncEventuallyReturns ==
    \A c \in Syncers :
        (syncPc[c] = "waiting" /\ Registered # {})
            => pc \notin {"final", "stats"}

\* C11: at every call of compressMetadata the carry state (lastFmtId,
\* lastTimestamp) is the (fmtId, timestamp) of the record compressed
\* immediately before it (<<0, 0>> at first), so that a decoder replaying the
\* stream with that carry recovers the record's fmtId and timestamp exactly.
C11_DeltaRoundTrip ==
    [][ eventsProcessed' # eventsProcessed =>
          LET re == RecordAt(sb, peekPosition) IN
          /\ <<lastFmtId, lastTimestamp>> = lastEmitted
          /\ DecodeMetadata(CompressMetadata(re, lastTimestamp, lastFmtId),
                            lastEmitted) = <<re.fmtId, re.timestamp>> ]_vars

\* A record of the second buffer, with the earlier timestamp, was compressed
\* after one of the first buffer and after a flush.
C11_Witness ==
    /\ lastEmitted = <<2, 3>>
    /\ Len(compressed[1]) >= 1
    /\ bytesSubmitted > 0

\* C12: with asynchronous I/O the thread waits for the previous write only
\* inside a flush (before it submits the next one) or after the loop: while a
\* write is in progress and the thread is in the scan/compress phase or on
\* the idle path, its next step is enabled, and waitForAIO() completes a wait
\* only at the flush and after the loop.
C12_ScanNotBlockedByWrite ==
    /\ [](( /\ hasOustandingOperation
            /\ AioInProgress
            /\ \/ pc \in {"loop", "pass_lock", "scan", "compress"}
               \/ pc = "post" /\ out = 0 )
          => ENABLED ScanPhaseStep)
    /\ [][ numAioWritesCompleted' # numAioWritesCompleted
             => pc \in {"post", "final"} ]_vars

\* A record of the next cycle is being compressed while the previous write is
\* still in progress.
C12_Witness ==
    /\ pc = "compress"
    /\ readableBytes > 0
    /\ hasOustandingOperation
    /\ AioInProgress

\* C13: when the scan removes tombstones during a pass, no live buffer is
\* visited twice before the lap completes (the entry the scan is about to
\* read has not been peek()ed in this lap), and none is skipped: a lap that
\* completes, whether it ends the pass idle or is followed by a further lap,
\* has peek()ed every live buffer that was registered when it began.
C13_TombstoneBookkeeping ==
    /\ []( (pc = "scan" /\ i < Len(threadBuffers)
                        /\ threadBuffers[i + 1] # NULL)
             => threadBuffers[i + 1] \notin lapSeen )
    /\ []( (pc = "post" /\ stoppedAt = NoIndex /\ ~shouldExit)
             => lapTodo = {} )
    /\ [][ (pc \in {"scan", "compress"} /\ pc' = "scan"
               /\ lapSeen # {} /\ lapSeen' = {})
             => lapTodo \subseteq
                  {IF pc = "scan" THEN threadBuffers[i + 1] ELSE sb} ]_vars

\* C14: every pass terminates; the thread never spins inside a pass holding
\* the registry lock.  (Reads of the registry outside its range are C18 and
\* are left aside here.)
C14_PassTerminates ==
    (pc \in {"scan", "compress"})
        ~> (pc \notin {"scan", "compress"} \/ i >= Len(threadBuffers))

\* C15: a record whose declared size cannot fit even an empty output buffer
\* is treated as a fatal condition; the loop does not go on to the
\* nothing-compressed path, pass after pass, with the record unconsumed.  So
\* no pass that stopped because a record did not fit ends with an empty
\* output buffer.
C15_OversizeIsFatal ==
    ~(pc = "post" /\ out = 0 /\ stoppedAt # NoIndex)

\* C16: on leaving its loop the thread waits for a write exactly when one is
\* outstanding (one wait, counted in numAioWritesCompleted), then reports its
\* statistics with one fdatasync, then terminates; once the wait is over no
\* write is outstanding, fdatasync has been called exactly once when the
\* thread has terminated and never before, and the destructor frees the
\* buffers only after the thread has terminated and been joined.
C16_ShutdownOrder ==
    /\ []( pc \in {"stats", "done"}
             => ~hasOustandingOperation /\ TotalInflight = 0 )
    /\ []( numFdatasync = IF pc = "done" THEN 1 ELSE 0 )
    /\ []( buffersFreed => pc = "done" /\ exitPc = "returned" )
    /\ [][ /\ (pc = "final" /\ pc' # "final")
              => /\ pc' = "stats"
                 /\ numAioWritesCompleted' = numAioWritesCompleted
                        + (IF hasOustandingOperation THEN 1 ELSE 0)
           /\ (pc = "stats" /\ pc' # "stats") => pc' = "done"
           /\ pc = "done" => pc' = "done" ]_vars

\* A single asynchronous write of 256 bytes was submitted and its completion
\* was waited for after the loop; the thread has terminated and the
\* destructor has freed the buffers.
C16_Witness ==
    /\ buffersFreed
    /\ useAIO
    /\ ~oDirect
    /\ bytesSubmitted = 256
    /\ numAioWritesCompleted = 1

\* C17: in the asynchronous and in the synchronous configuration,
\* totalBytesWritten is the sum of the lengths handed to the destination,
\* padBytesWritten grows at each flush by that flush's pad, and totalBytesRead
\* is the sum of entrySize of the consumed records (once the run of records
\* being compressed has been accounted, line 221).
C17_Counters ==
    /\ []( totalBytesWritten = bytesSubmitted )
    /\ []( pc # "compress" => totalBytesRead = bytesConsumed )
    /\ [][ bytesSubmitted' # bytesSubmitted
             => padBytesWritten' - padBytesWritten
                   = (bytesSubmitted' - bytesSubmitted) - out ]_vars

\* C18: whenever the scan loop is about to read threadBuffers[i] (line 164),
\* i is less than the size of the registry.
C18_IndexInRange ==
    pc = "scan" => i < Len(threadBuffers)

\* C19: no consumed record is dropped at shutdown: when the thread has left
\* its loop (through shouldExit or the empty-registry break), and already
\* whenever it is between two passes, every compressed byte has been handed
\* to a write.
C19_NothingUnsubmittedAtExit ==
    pc \in {"loop", "pass_lock", "final", "stats", "done"} => unsubmitted = 0

\* The thread has left its loop on exit() after records were consumed and
\* their compressed bytes submitted.
C19_Witness ==
    /\ pc = "final"
    /\ shouldExit
    /\ bytesConsumed > 0
    /\ bytesSubmitted > 0

\* C20: the active output buffer is never the region of an asynchronous write
\* that is still in flight, in particular not while records are compressed
\* into it; each asynchronous flush submits the active region, makes the
\* other region active, and that region has no write in flight.
C20_DoubleBufferExclusion ==
    /\ []( inflight[outputBuffer] = 0 )
    /\ [][ (useAIO /\ bytesSubmitted' # bytesSubmitted)
             => /\ aioCbBuf' = outputBuffer
                /\ outputBuffer' # outputBuffer
                /\ inflight'[outputBuffer'] = 0 ]_vars

\* The first region is active again after two flushes and a record is being
\* compressed into it while the write of the second region is in flight.
C20_Witness ==
    /\ pc = "compress"
    /\ readableBytes > 0
    /\ outputBuffer = 1
    /\ inflight[2] = 1
    /\ numAioWritesCompleted >= 1

====
